---- MODULE Spec2Model ----
(***************************************************************************)
(* Model of the shotmap generator pipeline of nhl-shotmaps-lambda:         *)
(* shotmaps_generator_sendtweet/lambda_handler.py drives the functions of  *)
(* clean_pbp.py over one play-by-play data frame.  A data frame is a       *)
(* sequence of rows, a row is a record whose fields are the columns.       *)
(* The module also models the two Lambdas around the tracking table        *)
(* (shotmaps_gamescraper/lambda_handler.py and the generator's             *)
(* db_upsert_event) and the polling loop of lambda_trigger.py.             *)
(***************************************************************************)
EXTENDS Integers, Sequences, FiniteSets, TLC

\* ------------------------------------------------------------------------
\* Bounds of the model
\* ------------------------------------------------------------------------
MaxLen == 2
MaxScoreLen == 3
MaxPeriod == 2
MaxX == 100
MaxY == 42
MaxGoalLen == 5
MaxEvents == 3
MaxTriggers == 2
MaxGoals == 1

\* ------------------------------------------------------------------------
\* Missing values
\* ------------------------------------------------------------------------
\* a missing string cell (NaN / None in an object column)
NaN == "NaN"
\* a missing numeric cell: numeric cells that may be missing are held as
\* <<v>> when present and <<>> when missing
Null == <<>>
\* a missing raw coordinate cell, before clean_df fills it with 0
NA == 999

VARIABLES raw, df, pc, home_team, away_team, home_df, away_df,
          shotmap_all, shotmap_5v5,
          table, game_period, in_flight, answers,
          livefeed, trigger_pc, triggered, last_iteration

vars == <<raw, df, pc, home_team, away_team, home_df, away_df,
          shotmap_all, shotmap_5v5,
          table, game_period, in_flight, answers,
          livefeed, trigger_pc, triggered, last_iteration>>

\* the generator pipeline over one frame
frames == <<raw, df, pc, home_team, away_team, home_df, away_df,
            shotmap_all, shotmap_5v5>>

\* the tracking table, the game, the generator invocations in flight and the
\* answers of the scraper Lambda
lambdas == <<table, game_period, in_flight, answers>>

\* the polling loop of lambda_trigger.py and the live feed it reads
trigger == <<livefeed, trigger_pc, triggered, last_iteration>>

\* the frames and results of the later handler steps
outputs == <<home_df, away_df, shotmap_all, shotmap_5v5>>

\* ------------------------------------------------------------------------
\* pandas / numpy primitives
\* ------------------------------------------------------------------------
\* df.loc[:, c] = v on one row: sets column c, creating it when absent
SetCol(r, c, v) == [f \in (DOMAIN r) \cup {c} |-> IF f = c THEN v ELSE r[f]]

\* df.loc[:, c] = <column computed per row index>
Assign(frame, c, Col(_)) == [i \in 1..Len(frame) |-> SetCol(frame[i], c, Col(i))]

\* Series.shift(1): the previous row's cell, missing on the first row
Shift1(frame, c, i) == IF i = 1 THEN Null ELSE <<frame[i - 1][c]>>

\* comparisons on cells that may be missing: any comparison with NaN is False
StrEq(a, b) == a # NaN /\ b # NaN /\ a = b
NLt(a, k) == a # Null /\ a[1] < k
NLe(a, k) == a # Null /\ a[1] <= k
NEq(a, k) == a # Null /\ a[1] = k

\* np.where(cond, 1, 0)
Where10(cond) == IF cond THEN 1 ELSE 0

Abs(n) == IF n < 0 THEN -n ELSE n

\* np.cumsum of the 0/1 column Flag(1..i)
RECURSIVE CumSum(_, _)
CumSum(Flag(_), i) == IF i = 0 THEN 0 ELSE CumSum(Flag, i - 1) + Flag(i)

\* ------------------------------------------------------------------------
\* lambda_handler: team abbreviation corrections
\* ------------------------------------------------------------------------
team_corrections(t) ==
    CASE t = "L.A" -> "LAK"
      [] t = "N.J" -> "NJD"
      [] t = "S.J" -> "SJS"
      [] t = "T.B" -> "TBL"
      [] OTHER -> t

replace_teams(frame) ==
    [i \in 1..Len(frame) |->
        [frame[i] EXCEPT !.ev_team = team_corrections(@),
                         !.home_team = team_corrections(@),
                         !.away_team = team_corrections(@)]]

\* Series.unique()[0]: the first value in order of appearance, missing or not
unique0(frame, c) == frame[1][c]

\* ------------------------------------------------------------------------
\* clean_pbp.fix_seconds_elapsed
\* ------------------------------------------------------------------------
fix_seconds_elapsed_quarter(pbp_df) ==
    [i \in 1..Len(pbp_df) |->
        [pbp_df[i] EXCEPT !.seconds_elapsed = @ + (300 * (pbp_df[i].period - 1))]]

fix_seconds_elapsed(pbp_df) ==
    [i \in 1..Len(pbp_df) |->
        [pbp_df[i] EXCEPT !.seconds_elapsed = @ + (1200 * (pbp_df[i].period - 1))]]

\* ------------------------------------------------------------------------
\* clean_pbp.clean_df
\* ------------------------------------------------------------------------
\* Series.fillna(v): fills the missing cells with v
fillna(cell, v) == IF cell = NaN THEN v ELSE cell

fill_coords(frame) ==
    [i \in 1..Len(frame) |->
        [frame[i] EXCEPT !.xc = IF @ = NA THEN 0 ELSE @,
                         !.yc = IF @ = NA THEN 0 ELSE @]]

fill_teams(frame) ==
    LET away0 == unique0(frame, "away_team")
        filled_away == [i \in 1..Len(frame) |->
                           [frame[i] EXCEPT !.away_team = fillna(@, away0)]]
        home0 == unique0(filled_away, "home_team")
    IN  [i \in 1..Len(frame) |->
            [filled_away[i] EXCEPT !.home_team = fillna(@, home0)]]

running_scores_final(frame) ==
    LET away0 == unique0(frame, "away_team")
        home0 == unique0(frame, "home_team")
        away_goal(i) == Where10(frame[i].event = "GOAL" /\ StrEq(frame[i].ev_team, away0))
        home_goal(i) == Where10(frame[i].event = "GOAL" /\ StrEq(frame[i].ev_team, home0))
        with_away == Assign(frame, "away_score", LAMBDA i : CumSum(away_goal, Len(frame)))
    IN  Assign(with_away, "home_score", LAMBDA i : CumSum(home_goal, Len(frame)))

running_scores(frame) ==
    LET away0 == unique0(frame, "away_team")
        home0 == unique0(frame, "home_team")
        away_goal(i) == Where10(frame[i].event = "GOAL" /\ StrEq(frame[i].ev_team, away0))
        home_goal(i) == Where10(frame[i].event = "GOAL" /\ StrEq(frame[i].ev_team, home0))
        with_away == Assign(frame, "away_score", LAMBDA i : CumSum(away_goal, i))
    IN  Assign(with_away, "home_score", LAMBDA i : CumSum(home_goal, i))

clean_df(frame) == running_scores(fill_teams(fill_coords(frame)))

\* fillna(value) raises ValueError when value is None; a missing cell read
\* from JSON is None or NaN depending on the pandas build
clean_df_may_raise(frame) ==
    unique0(frame, "away_team") = NaN \/ unique0(frame, "home_team") = NaN

\* ------------------------------------------------------------------------
\* clean_pbp.fixed_blocked_shots
\* ------------------------------------------------------------------------
flipped_zones(z) ==
    CASE z = "Off" -> "Def"
      [] z = "Neu" -> "Neu"
      [] z = "Def" -> "Off"
      [] OTHER -> z

fixed_blocked_shots_overwrite(pbp_df, writes) ==
    LET swapped ==
            [i \in 1..Len(pbp_df) |->
                LET r == pbp_df[i]
                    new_p1_name == IF r.event = "BLOCK" THEN r.p2_name ELSE r.p1_name
                    new_p1_id == IF r.event = "BLOCK" THEN r.p2_id ELSE r.p1_id
                IN  [r EXCEPT !.p1_name = new_p1_name, !.p2_name = new_p1_name,
                              !.p1_id = new_p1_id, !.p2_id = new_p1_id]]
        blocked == Assign(swapped, "shot_quality_blocked",
                          LAMBDA i : IF swapped[i].event = "BLOCK" THEN -1 ELSE 0)
    IN  [i \in 1..Len(blocked) |->
            [blocked[i] EXCEPT !.ev_zone = IF writes THEN flipped_zones(@) ELSE @]]

fixed_blocked_shots_no_swap(pbp_df, writes) ==
    LET blocked == Assign(pbp_df, "shot_quality_blocked",
                          LAMBDA i : IF pbp_df[i].event = "BLOCK" THEN -1 ELSE 0)
    IN  [i \in 1..Len(blocked) |->
            [blocked[i] EXCEPT !.ev_zone = IF writes THEN flipped_zones(@) ELSE @]]

fixed_blocked_shots_drop_blocks(pbp_df, writes) ==
    LET kept == SelectSeq(pbp_df, LAMBDA r : r.event # "BLOCK")
        blocked == Assign(kept, "shot_quality_blocked", LAMBDA i : 0)
    IN  [i \in 1..Len(blocked) |->
            [blocked[i] EXCEPT !.ev_zone = IF writes THEN flipped_zones(@) ELSE @]]

\* writes: whether the chained pbp_df["ev_zone"].replace(..., inplace=True)
\* reaches the frame (it does without copy-on-write, it does not with it)
fixed_blocked_shots(pbp_df, writes) ==
    LET swapped ==
            [i \in 1..Len(pbp_df) |->
                LET r == pbp_df[i]
                    new_p1_name == IF r.event = "BLOCK" THEN r.p2_name ELSE r.p1_name
                    new_p2_name == IF r.event = "BLOCK" THEN r.p1_name ELSE r.p2_name
                    new_p1_id == IF r.event = "BLOCK" THEN r.p2_id ELSE r.p1_id
                    new_p2_id == IF r.event = "BLOCK" THEN r.p1_id ELSE r.p2_id
                IN  [r EXCEPT !.p1_name = new_p1_name, !.p2_name = new_p2_name,
                              !.p1_id = new_p1_id, !.p2_id = new_p2_id]]
        blocked == Assign(swapped, "shot_quality_blocked",
                          LAMBDA i : IF swapped[i].event = "BLOCK" THEN -1 ELSE 0)
    IN  [i \in 1..Len(blocked) |->
            [blocked[i] EXCEPT !.ev_zone = IF writes THEN flipped_zones(@) ELSE @]]

\* ------------------------------------------------------------------------
\* clean_pbp.calc_time_diff
\* ------------------------------------------------------------------------
calc_time_diff_first_zero(pbp_df) ==
    Assign(pbp_df, "time_diff",
           LAMBDA i : IF i = 1 THEN <<0>>
                      ELSE <<pbp_df[i].seconds_elapsed - pbp_df[i - 1].seconds_elapsed>>)

calc_time_diff(pbp_df) ==
    Assign(pbp_df, "time_diff",
           LAMBDA i : IF i = 1 THEN Null
                      ELSE <<pbp_df[i].seconds_elapsed - pbp_df[i - 1].seconds_elapsed>>)

\* ------------------------------------------------------------------------
\* clean_pbp.calc_shot_metrics
\* ------------------------------------------------------------------------
corsi == {"SHOT", "BLOCK", "MISS", "GOAL"}
fenwick == {"SHOT", "MISS", "GOAL"}
shot == {"SHOT", "GOAL"}

calc_shot_metrics_block_fenwick(pbp_df) ==
    LET a == Assign(pbp_df, "is_corsi", LAMBDA i : Where10(pbp_df[i].event \in corsi))
        b == Assign(a, "is_fenwick", LAMBDA i : Where10(pbp_df[i].event \in corsi))
        c == Assign(b, "is_shot", LAMBDA i : Where10(pbp_df[i].event \in shot))
    IN  Assign(c, "is_goal", LAMBDA i : Where10(pbp_df[i].event = "GOAL"))

calc_shot_metrics(pbp_df) ==
    LET a == Assign(pbp_df, "is_corsi", LAMBDA i : Where10(pbp_df[i].event \in corsi))
        b == Assign(a, "is_fenwick", LAMBDA i : Where10(pbp_df[i].event \in fenwick))
        c == Assign(b, "is_shot", LAMBDA i : Where10(pbp_df[i].event \in shot))
    IN  Assign(c, "is_goal", LAMBDA i : Where10(pbp_df[i].event = "GOAL"))

\* ------------------------------------------------------------------------
\* clean_pbp.calc_distance_togoal
\* ------------------------------------------------------------------------
\* sqrt((87.95 - |xc|)^2 + yc^2) is irrational in general: the column holds
\* its square in units of 1/100 ft, (8795 - 100|xc|)^2 + (100 yc)^2
calc_distance_togoal(pbp_df) ==
    Assign(pbp_df, "distance_togoal",
           LAMBDA i : (8795 - 100 * Abs(pbp_df[i].xc)) * (8795 - 100 * Abs(pbp_df[i].xc))
                      + (100 * pbp_df[i].yc) * (100 * pbp_df[i].yc))

\* ------------------------------------------------------------------------
\* clean_pbp.calc_score_diff
\* ------------------------------------------------------------------------
calc_score_diff_no_floor(pbp_df) ==
    LET a == Assign(pbp_df, "score_diff",
                    LAMBDA i : pbp_df[i].home_score - pbp_df[i].away_score)
    IN  Assign(a, "score_diff",
               LAMBDA i : IF a[i].score_diff > 3 THEN 3 ELSE a[i].score_diff)

calc_score_diff(pbp_df) ==
    LET a == Assign(pbp_df, "score_diff",
                    LAMBDA i : pbp_df[i].home_score - pbp_df[i].away_score)
        b == Assign(a, "score_diff",
                    LAMBDA i : IF a[i].score_diff < -3 THEN -3 ELSE a[i].score_diff)
    IN  Assign(b, "score_diff",
               LAMBDA i : IF b[i].score_diff > 3 THEN 3 ELSE b[i].score_diff)

\* ------------------------------------------------------------------------
\* clean_pbp.calc_rebound
\* ------------------------------------------------------------------------
\* a comparison with the missing shifted cell of the first row is False
calc_rebound_window_le4(pbp_df) ==
    Assign(pbp_df, "is_rebound",
           LAMBDA i : Where10(
               /\ NLe(pbp_df[i].time_diff, 4)
               /\ pbp_df[i].is_corsi = 1
               /\ NEq(Shift1(pbp_df, "is_corsi", i), 1)
               /\ LET prev_team == Shift1(pbp_df, "ev_team", i)
                  IN  prev_team # Null /\ StrEq(pbp_df[i].ev_team, prev_team[1])))

calc_rebound(pbp_df) ==
    Assign(pbp_df, "is_rebound",
           LAMBDA i : Where10(
               /\ NLt(pbp_df[i].time_diff, 4)
               /\ pbp_df[i].is_corsi = 1
               /\ NEq(Shift1(pbp_df, "is_corsi", i), 1)
               /\ LET prev_team == Shift1(pbp_df, "ev_team", i)
                  IN  prev_team # Null /\ StrEq(pbp_df[i].ev_team, prev_team[1])))

\* ------------------------------------------------------------------------
\* clean_pbp.calc_rush_shot
\* ------------------------------------------------------------------------
calc_rush_shot_neutral_lt26(pbp_df) ==
    Assign(pbp_df, "is_rush",
           LAMBDA i : Where10(
               /\ NLt(pbp_df[i].time_diff, 5)
               /\ pbp_df[i].event \in {"SHOT", "MISS", "BLOCK", "GOAL"}
               /\ LET prev_x == Shift1(pbp_df, "xc", i)
                  IN  \/ (prev_x # Null /\ prev_x[1] * pbp_df[i].xc < 0)
                      \/ (prev_x # Null /\ Abs(prev_x[1]) < 26)))

calc_rush_shot(pbp_df) ==
    Assign(pbp_df, "is_rush",
           LAMBDA i : Where10(
               /\ NLt(pbp_df[i].time_diff, 5)
               /\ pbp_df[i].event \in {"SHOT", "MISS", "BLOCK", "GOAL"}
               /\ LET prev_x == Shift1(pbp_df, "xc", i)
                  IN  \/ (prev_x # Null /\ prev_x[1] * pbp_df[i].xc < 0)
                      \/ (prev_x # Null /\ Abs(prev_x[1]) <= 26)))

\* ------------------------------------------------------------------------
\* clean_pbp.calc_is_home
\* ------------------------------------------------------------------------
calc_is_home(pbp_df) ==
    Assign(pbp_df, "is_home",
           LAMBDA i : Where10(StrEq(pbp_df[i].ev_team, pbp_df[i].home_team)))

\* ------------------------------------------------------------------------
\* clean_pbp.calc_was_tied
\* ------------------------------------------------------------------------
calc_was_tied_current_row(pbp_df) ==
    Assign(pbp_df, "was_tied",
           LAMBDA i : Where10(pbp_df[i].event = "GOAL" /\ pbp_df[i].score_diff = 0))

calc_was_tied(pbp_df) ==
    Assign(pbp_df, "was_tied",
           LAMBDA i : Where10(pbp_df[i].event = "GOAL"
                              /\ NEq(Shift1(pbp_df, "score_diff", i), 0)))

\* ------------------------------------------------------------------------
\* clean_pbp.point_in_triangle
\* ------------------------------------------------------------------------
\* Segment A to B
side_1(point, triangle) ==
    (point[1] - triangle[2][1]) * (triangle[1][2] - triangle[2][2])
    - (triangle[1][1] - triangle[2][1]) * (point[2] - triangle[2][2])
\* Segment B to C
side_2(point, triangle) ==
    (point[1] - triangle[3][1]) * (triangle[2][2] - triangle[3][2])
    - (triangle[2][1] - triangle[3][1]) * (point[2] - triangle[3][2])
\* Segment C to A
side_3(point, triangle) ==
    (point[1] - triangle[1][1]) * (triangle[3][2] - triangle[1][2])
    - (triangle[3][1] - triangle[1][1]) * (point[2] - triangle[1][2])

point_in_triangle_inclusive(point, triangle) ==
    /\ (side_1(point, triangle) <= 0) = (side_2(point, triangle) <= 0)
    /\ (side_2(point, triangle) <= 0) = (side_3(point, triangle) <= 0)

\* Python's chained a == b == c is (a == b) and (b == c)
point_in_triangle(point, triangle) ==
    /\ (side_1(point, triangle) < 0) = (side_2(point, triangle) < 0)
    /\ (side_2(point, triangle) < 0) = (side_3(point, triangle) < 0)

\* ------------------------------------------------------------------------
\* clean_pbp.dfapply_danger_area
\* ------------------------------------------------------------------------
md_triangle == <<(<<70, 23>>), (<<90, 8>>), (<<70, 8>>)>>

dfapply_danger_area_signed(row) ==
    LET x == row.xc
        y == row.yc
        is_corsi_row == (row.is_corsi = 1)
    IN  IF ~is_corsi_row THEN Null
        ELSE IF row.ev_zone # "Off" /\ is_corsi_row THEN <<0>>
        ELSE IF 69 <= x /\ x <= 89 /\ y <= 9 THEN <<3>>
        ELSE IF \/ (44 <= x /\ x <= 54 /\ y <= 9)
                \/ (54 <= x /\ x <= 69 /\ y <= 22)
                \/ point_in_triangle(<<x, y>>, md_triangle) THEN <<2>>
        ELSE IF row.ev_zone = "Off" THEN <<1>>
        ELSE <<0>>

dfapply_danger_area(row) ==
    LET x == Abs(row.xc)
        y == Abs(row.yc)
        is_corsi_row == (row.is_corsi = 1)
    IN  IF ~is_corsi_row THEN Null
        ELSE IF row.ev_zone # "Off" /\ is_corsi_row THEN <<0>>
        ELSE IF 69 <= x /\ x <= 89 /\ y <= 9 THEN <<3>>
        ELSE IF \/ (44 <= x /\ x <= 54 /\ y <= 9)
                \/ (54 <= x /\ x <= 69 /\ y <= 22)
                \/ point_in_triangle(<<x, y>>, md_triangle) THEN <<2>>
        ELSE IF row.ev_zone = "Off" THEN <<1>>
        ELSE <<0>>

\* ------------------------------------------------------------------------
\* clean_pbp.calc_shot_quality_area
\* ------------------------------------------------------------------------
calc_shot_quality_area(pbp_df) ==
    Assign(pbp_df, "shot_quality_area", LAMBDA i : dfapply_danger_area(pbp_df[i]))

\* ------------------------------------------------------------------------
\* clean_pbp.calc_shot_danger
\* ------------------------------------------------------------------------
calc_shot_danger_no_block(pbp_df) ==
    Assign(pbp_df, "shot_danger",
           LAMBDA i : (IF pbp_df[i].shot_quality_area = Null THEN 0
                       ELSE pbp_df[i].shot_quality_area[1])
                      + pbp_df[i].is_rush + pbp_df[i].is_rebound)

\* DataFrame.sum(axis=1) skips missing cells
calc_shot_danger(pbp_df) ==
    Assign(pbp_df, "shot_danger",
           LAMBDA i : (IF pbp_df[i].shot_quality_area = Null THEN 0
                       ELSE pbp_df[i].shot_quality_area[1])
                      + pbp_df[i].is_rush + pbp_df[i].is_rebound
                      + pbp_df[i].shot_quality_blocked)

\* ------------------------------------------------------------------------
\* clean_pbp.calc_is_scoring_chance
\* ------------------------------------------------------------------------
calc_is_scoring_chance(pbp_df) ==
    Assign(pbp_df, "is_scoring_chance", LAMBDA i : Where10(pbp_df[i].shot_danger >= 2))

\* ------------------------------------------------------------------------
\* clean_pbp.calc_team_strength
\* ------------------------------------------------------------------------
even == {"5x5", "4x4", "3x3"}
home_pp == {"6x4", "5x4", "5x3", "4x3"}
home_pk == {"4x6", "4x5", "3x5", "3x4"}

calc_team_strength_away_as_home(pbp_df) ==
    LET a == Assign(pbp_df, "is_even_strength", LAMBDA i : Where10(pbp_df[i].strength \in even))
        b == Assign(a, "is_home_pp", LAMBDA i : Where10(pbp_df[i].strength \in home_pp))
        c == Assign(b, "is_home_pk", LAMBDA i : Where10(pbp_df[i].strength \in home_pk))
        d == Assign(c, "is_away_pp", LAMBDA i : Where10(pbp_df[i].strength \in home_pp))
    IN  Assign(d, "is_away_pk", LAMBDA i : Where10(pbp_df[i].strength \in home_pk))

calc_team_strength(pbp_df) ==
    LET a == Assign(pbp_df, "is_even_strength", LAMBDA i : Where10(pbp_df[i].strength \in even))
        b == Assign(a, "is_home_pp", LAMBDA i : Where10(pbp_df[i].strength \in home_pp))
        c == Assign(b, "is_home_pk", LAMBDA i : Where10(pbp_df[i].strength \in home_pk))
        d == Assign(c, "is_away_pp", LAMBDA i : Where10(pbp_df[i].strength \in home_pk))
    IN  Assign(d, "is_away_pk", LAMBDA i : Where10(pbp_df[i].strength \in home_pp))

\* ------------------------------------------------------------------------
\* clean_pbp.run_all_stats
\* ------------------------------------------------------------------------
run_all_stats(pbp_df, writes) ==
    LET s1 == fix_seconds_elapsed(pbp_df)
        s2 == fixed_blocked_shots(s1, writes)
        s3 == calc_time_diff(s2)
        s4 == calc_shot_metrics(s3)
        s5 == calc_distance_togoal(s4)
        s6 == calc_score_diff(s5)
        s7 == calc_rebound(s6)
        s8 == calc_rush_shot(s7)
        s9 == calc_is_home(s8)
        s10 == calc_was_tied(s9)
        s11 == calc_shot_quality_area(s10)
        s12 == calc_shot_danger(s11)
        s13 == calc_is_scoring_chance(s12)
    IN  calc_team_strength(s13)

\* ------------------------------------------------------------------------
\* lambda_handler: the frame from the payload to the end of run_all_stats
\* ------------------------------------------------------------------------
pipeline(frame, writes) ==
    run_all_stats(clean_df(fix_seconds_elapsed(replace_teams(frame))), writes)

\* ------------------------------------------------------------------------
\* lambda_handler: corsi filter and blank cells
\* ------------------------------------------------------------------------
\* pbp_df.replace(to_replace=["", "NA"], value=nan): blank string cells
replace_blank(cell) == IF cell \in {"", "NA"} THEN NaN ELSE cell

corsi_only(pbp_df) ==
    LET kept == SelectSeq(pbp_df, LAMBDA r : r.is_corsi = 1)
    IN  [i \in 1..Len(kept) |->
            [kept[i] EXCEPT !.event = replace_blank(@), !.ev_team = replace_blank(@),
                            !.home_team = replace_blank(@), !.away_team = replace_blank(@),
                            !.ev_zone = replace_blank(@), !.strength = replace_blank(@),
                            !.p1_name = replace_blank(@), !.p2_name = replace_blank(@)]]

\* ------------------------------------------------------------------------
\* clean_pbp.fix_df_periods
\* ------------------------------------------------------------------------
fix_df_periods_x_only(frame) ==
    [i \in 1..Len(frame) |->
        IF frame[i].period % 2 = 0
        THEN [frame[i] EXCEPT !.xc = @ * (-1)]
        ELSE frame[i]]

fix_df_periods(frame) ==
    [i \in 1..Len(frame) |->
        IF frame[i].period % 2 = 0
        THEN [frame[i] EXCEPT !.xc = @ * (-1), !.yc = @ * (-1)]
        ELSE frame[i]]

\* ------------------------------------------------------------------------
\* lambda_handler: pbp_df.sort_values("seconds_elapsed")
\* ------------------------------------------------------------------------
\* the default sort is not stable: rows with equal seconds_elapsed may end in
\* any order
sort_values(frame) ==
    {[i \in 1..Len(frame) |-> frame[f[i]]] : f \in
        {g \in Permutations(1..Len(frame)) :
            \A i \in 1..(Len(frame) - 1) :
                frame[g[i]].seconds_elapsed <= frame[g[i + 1]].seconds_elapsed}}

\* ------------------------------------------------------------------------
\* clean_pbp.split_df
\* ------------------------------------------------------------------------
\* != is True when either side is missing
StrNe(a, b) == ~StrEq(a, b)

negate_where(frame, Flip(_)) ==
    [i \in 1..Len(frame) |->
        IF Flip(frame[i])
        THEN [frame[i] EXCEPT !.xc = @ * (-1), !.yc = @ * (-1)]
        ELSE frame[i]]

split_df_x_only(frame, home) ==
    LET home_rows == SelectSeq(frame, LAMBDA r : StrEq(r.ev_team, home))
        away_rows == SelectSeq(frame, LAMBDA r : StrNe(r.ev_team, home))
    IN  <<[i \in 1..Len(home_rows) |->
              IF home_rows[i].xc < 0 THEN [home_rows[i] EXCEPT !.xc = @ * (-1)]
              ELSE home_rows[i]],
          [i \in 1..Len(away_rows) |->
              IF away_rows[i].xc > 0 THEN [away_rows[i] EXCEPT !.xc = @ * (-1)]
              ELSE away_rows[i]]>>

split_df_same_side(frame, home) ==
    LET home_rows == SelectSeq(frame, LAMBDA r : StrEq(r.ev_team, home))
        away_rows == SelectSeq(frame, LAMBDA r : StrNe(r.ev_team, home))
    IN  <<negate_where(home_rows, LAMBDA r : r.xc < 0),
          negate_where(away_rows, LAMBDA r : r.xc < 0)>>

split_df_known_teams(frame, home) ==
    LET home_rows == SelectSeq(frame, LAMBDA r : StrEq(r.ev_team, home))
        away_rows == SelectSeq(frame, LAMBDA r : StrEq(r.ev_team, r.away_team))
    IN  <<negate_where(home_rows, LAMBDA r : r.xc < 0),
          negate_where(away_rows, LAMBDA r : r.xc > 0)>>

split_df(frame, home) ==
    LET home_rows == SelectSeq(frame, LAMBDA r : StrEq(r.ev_team, home))
        away_rows == SelectSeq(frame, LAMBDA r : StrNe(r.ev_team, home))
    IN  <<negate_where(home_rows, LAMBDA r : r.xc < 0),
          negate_where(away_rows, LAMBDA r : r.xc > 0)>>

\* ------------------------------------------------------------------------
\* clean_pbp.df_remove_blocked_shots, clean_pbp.df_remove_zerozero
\* ------------------------------------------------------------------------
df_remove_blocked_shots(frame) == SelectSeq(frame, LAMBDA r : r.event # "BLOCK")

df_remove_zerozero(frame) == SelectSeq(frame, LAMBDA r : r.xc # 0 /\ r.yc # 0)

\* ------------------------------------------------------------------------
\* shotmap.generate_shotmap
\* ------------------------------------------------------------------------
NotRun == [status |-> "not run"]
Raised(error, line) == [status |-> "raised", error |-> error, line |-> line]

\* a quotient n / d, kept exact as the pair <<n, d>>
Ratio(n, d) == <<n, d>>

\* len(frame[frame[c] == 1])
CountEq(frame, c, v) == Len(SelectSeq(frame, LAMBDA r : r[c] = v))

RECURSIVE ColumnSum(_, _, _)
ColumnSum(frame, c, i) == IF i = 0 THEN 0 ELSE ColumnSum(frame, c, i - 1) + frame[i][c]

\* the statements of generate_shotmap in order: the first that raises ends it.
\* Series.unique()[0] raises IndexError on an empty frame, int / int raises
\* ZeroDivisionError on a zero divisor, a numpy sum divided by zero is nan.
generate_shotmap(home, away) ==
    LET corsi_for == Len(home)
        corsi_against == Len(away)
        shots == CountEq(home, "is_shot", 1)
        goals == CountEq(home, "is_goal", 1)
    IN  IF Len(home) = 0 THEN Raised("IndexError", 127)
        ELSE IF Len(away) = 0 THEN Raised("IndexError", 128)
        ELSE IF corsi_for + corsi_against = 0 THEN Raised("ZeroDivisionError", 133)
        ELSE IF corsi_for = 0 THEN Raised("ZeroDivisionError", 158)
        ELSE [status |-> "ok",
              home_team |-> unique0(home, "home_team"),
              away_team |-> unique0(away, "away_team"),
              corsi_for |-> corsi_for,
              corsi_against |-> corsi_against,
              corsi_for_percent |-> Ratio(100 * corsi_for, corsi_for + corsi_against),
              goals_for |-> CountEq(home, "is_goal", 1),
              goals_against |-> CountEq(away, "is_goal", 1),
              scf |-> CountEq(home, "is_scoring_chance", 1),
              sca |-> CountEq(away, "is_scoring_chance", 1),
              hdcf |-> Len(SelectSeq(home, LAMBDA r : r.shot_danger > 2)),
              hdca |-> Len(SelectSeq(away, LAMBDA r : r.shot_danger > 2)),
              sh_percent |-> IF shots > 0 THEN Ratio(100 * goals, shots) ELSE Ratio(0, 1),
              avg_shot_distance |->
                  Ratio(ColumnSum(home, "distance_togoal", Len(home)), corsi_for),
              on_target |-> Ratio(100 * shots, corsi_for),
              plot_home |-> df_remove_zerozero(df_remove_blocked_shots(home)),
              plot_away |-> df_remove_zerozero(df_remove_blocked_shots(away))]

\* ------------------------------------------------------------------------
\* The generator lambda_handler, one action per step
\* ------------------------------------------------------------------------
\* read the frame, correct the team abbreviations, take the team names
LoadFrame ==
    /\ pc = "start"
    /\ df' = replace_teams(df)
    /\ home_team' = unique0(replace_teams(df), "home_team")
    /\ away_team' = unique0(replace_teams(df), "away_team")
    /\ pc' = "loaded"
    /\ UNCHANGED <<raw, outputs, lambdas, trigger>>

\* pbp_df = clean_pbp.fix_seconds_elapsed(pbp_df)
FixSecondsElapsed ==
    /\ pc = "loaded"
    /\ df' = fix_seconds_elapsed(df)
    /\ pc' = "fixed"
    /\ UNCHANGED <<raw, home_team, away_team, outputs, lambdas, trigger>>

\* pbp_df = clean_pbp.clean_df(pbp_df)
CleanDf ==
    /\ pc = "fixed"
    /\ \E raises \in {r \in BOOLEAN : r => clean_df_may_raise(df)} :
          /\ pc' = IF raises THEN "failed" ELSE "cleaned"
          /\ df' = IF raises THEN df ELSE clean_df(df)
    /\ UNCHANGED <<raw, home_team, away_team, outputs, lambdas, trigger>>

\* pbp_df = clean_pbp.run_all_stats(pbp_df)
RunAllStats ==
    /\ pc = "cleaned"
    /\ \E writes \in BOOLEAN : df' = run_all_stats(df, writes)
    /\ pc' = "enriched"
    /\ UNCHANGED <<raw, home_team, away_team, outputs, lambdas, trigger>>

\* pbp_df = pbp_df.loc[pbp_df["is_corsi"] == 1]; pbp_df.replace(["", "NA"], nan)
FilterCorsi ==
    /\ pc = "enriched"
    /\ df' = corsi_only(df)
    /\ pc' = "corsi"
    /\ UNCHANGED <<raw, home_team, away_team, outputs, lambdas, trigger>>

\* pbp_df = clean_pbp.fix_df_periods(pbp_df)
FixDfPeriods ==
    /\ pc = "corsi"
    /\ df' = fix_df_periods(df)
    /\ pc' = "periods_fixed"
    /\ UNCHANGED <<raw, home_team, away_team, outputs, lambdas, trigger>>

\* pbp_df = pbp_df.sort_values("seconds_elapsed")
SortValues ==
    /\ pc = "periods_fixed"
    /\ df' \in sort_values(df)
    /\ pc' = "sorted"
    /\ UNCHANGED <<raw, home_team, away_team, outputs, lambdas, trigger>>

\* home_df, away_df = clean_pbp.split_df(pbp_df, home_team)
SplitDf ==
    /\ pc = "sorted"
    /\ home_df' = split_df(df, home_team)[1]
    /\ away_df' = split_df(df, home_team)[2]
    /\ pc' = "split"
    /\ UNCHANGED <<raw, df, home_team, away_team, shotmap_all, shotmap_5v5,
                   lambdas, trigger>>

\* period = pbp_df.period.max(); ordinal(period) raises ValueError on the nan
\* of an empty frame.  Then shotmap.generate_shotmap on the two frames and on
\* their 5x5 rows; only the frames are passed on to the function of
\* shotmap.py, which takes no other argument.
GenerateShotmaps ==
    /\ pc = "split"
    /\ LET home_df_5v5 == SelectSeq(home_df, LAMBDA r : StrEq(r.strength, "5x5"))
           away_df_5v5 == SelectSeq(away_df, LAMBDA r : StrEq(r.strength, "5x5"))
           first == generate_shotmap(home_df, away_df)
           second == generate_shotmap(home_df_5v5, away_df_5v5)
       IN  IF Len(df) = 0
           THEN /\ shotmap_all' = Raised("ValueError", 216)
                /\ shotmap_5v5' = NotRun
                /\ pc' = "failed"
           ELSE /\ shotmap_all' = first
                /\ shotmap_5v5' = IF first.status = "ok" THEN second ELSE NotRun
                /\ pc' = IF first.status = "ok" /\ second.status = "ok"
                         THEN "mapped" ELSE "failed"
    /\ UNCHANGED <<raw, df, home_team, away_team, home_df, away_df, lambdas, trigger>>

\* the enrichment steps of the handler
Enrich == LoadFrame \/ FixSecondsElapsed \/ CleanDf \/ RunAllStats

Next ==
    \/ Enrich
    \/ FilterCorsi \/ FixDfPeriods \/ SortValues \/ SplitDf \/ GenerateShotmaps

\* ------------------------------------------------------------------------
\* shotmaps_gamescraper/lambda_handler.py and the tracking table
\* ------------------------------------------------------------------------
\* the item of the game in nhl-shotmaps-tracking: Null when there is none,
\* <<p>> when lastPeriodProcessed = p
check_db_for_last_period(item) == IF item = Null THEN 0 ELSE item[1]

is_event_period_newer(item, event_period) ==
    event_period > check_db_for_last_period(item)

\* the events the scraper Lambda receives: an SNS record of a play of some
\* period, or the payload of lambda_trigger.trigger_lambda (game_id,
\* testing, home_score, away_score); valid_id is the verdict of get_game_id
ScraperEvents(now) ==
    [kind : {"sns"}, period : 1..now, valid_id : BOOLEAN]
    \cup [kind : {"direct"}, period : {0}, valid_id : BOOLEAN]

\* the local variable period of lambda_handler: assigned in the SNS branch
\* only, <<>> while unassigned
local_period(event) == IF event.kind = "sns" THEN <<event.period>> ELSE <<>>

\* the outcome of lambda_handler(event, context) against the item it reads
scraper_lambda_handler(event, item) ==
    IF ~event.valid_id THEN "invalid game id"
    ELSE IF local_period(event) = <<>> THEN "UnboundLocalError"
    ELSE IF ~is_event_period_newer(item, local_period(event)[1]) THEN "409"
    ELSE "invoked"

\* db_upsert_event: SET lastPeriodProcessed = :period, whatever is stored
db_upsert_event(item, event_period) == <<event_period>>

\* one run of the scraper Lambda: on "invoked" it scrapes the game, whose
\* play-by-play reaches the current period, and invokes the generator
\* asynchronously with it
ScraperHandler ==
    /\ pc = "idle"
    /\ trigger_pc = "idle"
    /\ Len(answers) < MaxEvents
    /\ \E event \in ScraperEvents(game_period) :
          LET status == scraper_lambda_handler(event, table)
          IN  /\ answers' = Append(answers,
                                [kind |-> event.kind, period |-> event.period,
                                 valid_id |-> event.valid_id, status |-> status])
              /\ in_flight' = IF status = "invoked"
                              THEN in_flight \cup {[id |-> Len(answers) + 1,
                                                    period |-> game_period]}
                              ELSE in_flight
    /\ UNCHANGED <<frames, table, game_period, trigger>>

\* one run of the generator Lambda on a payload in flight: period is the
\* maximum period of the scraped frame, written by db_upsert_event as the
\* last statement; a run that raises earlier writes nothing
GeneratorHandler ==
    /\ pc = "idle"
    /\ trigger_pc = "idle"
    /\ \E run \in in_flight : \E completes \in BOOLEAN :
          /\ in_flight' = in_flight \ {run}
          /\ table' = IF completes THEN db_upsert_event(table, run.period) ELSE table
    /\ UNCHANGED <<frames, game_period, answers, trigger>>

\* the game moves on to its next period
PeriodEnds ==
    /\ pc = "idle"
    /\ trigger_pc = "idle"
    /\ game_period < MaxPeriod
    /\ game_period' = game_period + 1
    /\ UNCHANGED <<frames, table, in_flight, answers, trigger>>

NextLambdas == ScraperHandler \/ GeneratorHandler \/ PeriodEnds

LambdasIdle ==
    /\ table = Null
    /\ game_period = 1
    /\ in_flight = {}
    /\ answers = <<>>

\* ------------------------------------------------------------------------
\* lambda_trigger.py
\* ------------------------------------------------------------------------
Feeds ==
    [abstractGameState : {"Preview", "Live", "Final"}, inIntermission : BOOLEAN,
     home : 0..MaxGoals, away : 0..MaxGoals]

\* the feed of a game only moves forward
Later(old, new) ==
    /\ new # old
    /\ old.abstractGameState = "Final" => new.abstractGameState = "Final"
    /\ new.abstractGameState = "Preview" => old.abstractGameState = "Preview"
    /\ new.home >= old.home /\ new.away >= old.away
    /\ new.abstractGameState # "Live" => ~new.inIntermission
    /\ new.abstractGameState = "Preview" => (new.home = 0 /\ new.away = 0)

\* def trigger_lambda(game_id, lambda_arn, home_score, away_score): a call
\* that leaves out a parameter raises TypeError, a complete call invokes the
\* Lambda with the payload
trigger_lambda(kwargs) ==
    IF {"game_id", "lambda_arn", "home_score", "away_score"} \subseteq DOMAIN kwargs
    THEN [status |-> "ok",
          payload |-> [home_score |-> kwargs.home_score,
                       away_score |-> kwargs.away_score]]
    ELSE Raised("TypeError", 88)

\* one iteration of the while True loop, to the sleep that ends it or to
\* sys.exit(); an exception raised inside the try is caught and slept on
PollOnce ==
    /\ trigger_pc = "running"
    /\ livefeed.abstractGameState = "Final" \/ Len(triggered) < MaxTriggers
    /\ LET game_state == livefeed.abstractGameState
           final_call == trigger_lambda([game_id |-> "g", lambda_arn |-> "arn"])
           intermission_call ==
               trigger_lambda([game_id |-> "g", lambda_arn |-> "arn",
                               home_score |-> livefeed.home,
                               away_score |-> livefeed.away])
       IN  IF game_state = "Final"
           THEN IF final_call.status = "ok"
                THEN /\ triggered' = Append(triggered, final_call.payload)
                     /\ trigger_pc' = "exited"
                     /\ last_iteration' = "triggered"
                ELSE /\ last_iteration' = "exception"
                     /\ UNCHANGED <<triggered, trigger_pc>>
           ELSE IF game_state = "Preview"
           THEN /\ last_iteration' = "slept"
                /\ UNCHANGED <<triggered, trigger_pc>>
           ELSE IF livefeed.inIntermission
           THEN IF intermission_call.status = "ok"
                THEN /\ triggered' = Append(triggered, intermission_call.payload)
                     /\ last_iteration' = "triggered"
                     /\ UNCHANGED trigger_pc
                ELSE /\ last_iteration' = "exception"
                     /\ UNCHANGED <<triggered, trigger_pc>>
           ELSE /\ last_iteration' = "slept"
                /\ UNCHANGED <<triggered, trigger_pc>>
    /\ UNCHANGED <<frames, lambdas, livefeed>>

\* the live feed changes between two polls
FeedAdvance ==
    /\ trigger_pc = "running"
    /\ \E new \in Feeds : Later(livefeed, new) /\ livefeed' = new
    /\ UNCHANGED <<frames, lambdas, trigger_pc, triggered, last_iteration>>

NextTrigger == PollOnce \/ FeedAdvance

TriggerIdle ==
    /\ livefeed = [abstractGameState |-> "Preview", inIntermission |-> FALSE,
                   home |-> 0, away |-> 0]
    /\ trigger_pc = "idle"
    /\ triggered = <<>>
    /\ last_iteration = "none"

\* ------------------------------------------------------------------------
\* Input frames
\* ------------------------------------------------------------------------
Row(ev, per, sec, team, home, away, x, y, zone, p1, p2, str) ==
    [event |-> ev, period |-> per, seconds_elapsed |-> sec, ev_team |-> team,
     home_team |-> home, away_team |-> away, xc |-> x, yc |-> y, ev_zone |-> zone,
     p1_id |-> p1.id, p1_name |-> p1.name, p2_id |-> p2.id, p2_name |-> p2.name,
     strength |-> str]

PA == [id |-> 8471, name |-> "A"]
PB == [id |-> 8472, name |-> "B"]

Frames(Rows, n) == UNION {[1..k -> Rows] : k \in 1..n}

InitWith(Rows, n) ==
    /\ raw \in Frames(Rows, n)
    /\ df = raw
    /\ pc = "start"
    /\ home_team = NaN
    /\ away_team = NaN
    /\ home_df = <<>>
    /\ away_df = <<>>
    /\ shotmap_all = NotRun
    /\ shotmap_5v5 = NotRun
    /\ LambdasIdle
    /\ TriggerIdle

\* periods and in-period times
TimeRows ==
    {Row(ev, per, sec, "NJD", "NJD", "NYR", 60, 5, "Off", PA, PB, "5x5") :
        ev \in {"SHOT", "FAC"}, per \in 1..MaxPeriod, sec \in {0, 3, 1199}}

\* event types, zones and participants
BlockRows ==
    {Row(ev, 1, 10, "NJD", "NJD", "NYR", 60, 5, zone, p[1], p[2], "5x5") :
        ev \in {"SHOT", "BLOCK", "FAC"}, zone \in {"Off", "Neu", "Def"},
        p \in {<<PA, PB>>, <<PB, PA>>}}

\* goals, acting teams and missing team-name cells
ScoreRows ==
    {Row(ev, 1, 10, team, t[1], t[2], 60, 5, "Off", PA, PB, "5x5") :
        ev \in {"GOAL", "FAC"}, team \in {"N.J", "NYR"},
        t \in {<<"N.J", "NYR">>, <<NaN, "NYR">>, <<"N.J", NaN>>}}

\* times around the rebound window, acting teams, corsi and other events
ReboundRows ==
    {Row(ev, per, sec, team, "NJD", "NYR", 60, 5, "Off", PA, PB, "5x5") :
        ev \in {"SHOT", "FAC"}, per \in {1, 2}, sec \in {0, 3, 4, 8},
        team \in {"NJD", "NYR"}}

\* times around the rush window and x coordinates around centre ice
RushRows ==
    {Row(ev, 1, sec, "NJD", "NJD", "NYR", x, 5, "Off", PA, PB, "5x5") :
        ev \in {"SHOT", "FAC"}, sec \in {0, 2, 7}, x \in {-40, -26, NA, 27, 40}}

\* one event anywhere on the rink
GeomRows ==
    {Row(ev, 1, 10, "NJD", "NJD", "NYR", x, y, zone, PA, PB, "5x5") :
        ev \in {"SHOT", "FAC"}, x \in (-MaxX)..MaxX, y \in (-MaxY)..MaxY,
        zone \in {"Off", "Neu", "Def"}}

\* event types, times, depths and zones that make every danger term vary
DangerRows ==
    {Row(ev, 1, sec, "NJD", "NJD", "NYR", x, 5, zone, PA, PB, "5x5") :
        ev \in {"SHOT", "BLOCK", "FAC"}, sec \in {0, 9}, x \in {20, 75},
        zone \in {"Off", "Def"}}

\* goals of either team, enough of them to pass the cap
GoalRows ==
    {Row(ev, 1, 10, team, "NJD", "NYR", 60, 5, "Off", PA, PB, "5x5") :
        ev \in {"GOAL", "FAC"}, team \in {"NJD", "NYR"}}

\* one event of every type under every strength code
FlagRows ==
    {Row(ev, 1, 10, "NJD", "NJD", "NYR", 60, 5, "Off", PA, PB, str) :
        ev \in {"SHOT", "BLOCK", "MISS", "GOAL", "FAC", "HIT"},
        str \in even \cup home_pp \cup home_pk \cup {"6x5", "5x6"}}

Init == InitWith(TimeRows, MaxLen)
InitBlock == InitWith(BlockRows, MaxLen)
InitScore == InitWith(ScoreRows, MaxScoreLen)
InitRebound == InitWith(ReboundRows, MaxLen)
InitRush == InitWith(RushRows, MaxLen)
InitGeom == InitWith(GeomRows, 1)

\* corsi events of the home team, the away team and a third team on either
\* side of centre ice in odd and even periods
SplitRows ==
    {Row("SHOT", per, 10, team, "NJD", "NYR", x, 12, "Off", PA, PB, "5x5") :
        per \in 1..MaxPeriod, team \in {"NJD", "NYR", "UNK"}, x \in {-30, 0, 30}}
    \cup {Row("FAC", 1, 10, "NJD", "NJD", "NYR", 0, 0, "Neu", PA, PB, "5x5")}

\* corsi events on and off the axes of the rink
ZeroRows ==
    {Row(ev, 1, 10, team, "NJD", "NYR", c[1], c[2], "Off", PA, PB, "5x5") :
        ev \in {"SHOT", "BLOCK"}, team \in {"NJD", "NYR"},
        c \in {<<0, 0>>, <<50, 0>>, <<0, 12>>, <<50, 12>>}}
    \cup {Row("FAC", 1, 10, "NJD", "NJD", "NYR", 0, 0, "Neu", PA, PB, "5x5")}

\* period ends and period starts, in and out of game order
OrderRows ==
    {Row(ev, per, sec, "NJD", "NJD", "NYR", 60, 5, "Off", PA, PB, "5x5") :
        ev \in {"SHOT", "FAC"}, per \in 1..MaxPeriod, sec \in {0, 600, 1200}}

\* blocked and unblocked shots in every period
IdemRows ==
    {Row(ev, per, 10, "NJD", "NJD", "NYR", 60, 5, zone, PA, PB, "5x5") :
        ev \in {"SHOT", "BLOCK"}, per \in 1..MaxPeriod, zone \in {"Off", "Neu"}}

\* goals and faceoffs of either team near and far from centre ice
FirstRows ==
    {Row(ev, 1, 10, team, "NJD", "NYR", x, 5, "Off", PA, PB, "5x5") :
        ev \in {"GOAL", "FAC"}, team \in {"NJD", "NYR"}, x \in {20, 75}}

InitOrder == InitWith(OrderRows, MaxLen)
InitIdem == InitWith(IdemRows, MaxLen)
InitFirst == InitWith(FirstRows, MaxLen)
InitDanger == InitWith(DangerRows, MaxLen)
InitGoals == InitWith(GoalRows, MaxGoalLen)
InitFlags == InitWith(FlagRows, 1)
InitSplit == InitWith(SplitRows, MaxLen)
InitZero == InitWith(ZeroRows, MaxLen)

Spec == Init /\ [][Next]_vars
SpecBlock == InitBlock /\ [][Next]_vars
SpecScore == InitScore /\ [][Next]_vars
SpecRebound == InitRebound /\ [][Next]_vars
SpecRush == InitRush /\ [][Next]_vars
SpecDanger == InitDanger /\ [][Next]_vars
SpecGoals == InitGoals /\ [][Next]_vars
SpecFlags == InitFlags /\ [][Next]_vars
SpecSplit == InitSplit /\ [][Next]_vars
SpecZero == InitZero /\ [][Next]_vars
SpecOrder == InitOrder /\ [][Next]_vars
SpecIdem == InitIdem /\ [][Next]_vars
SpecFirst == InitFirst /\ [][Next]_vars
\* no frame in the generator, no polling loop: the two Lambdas alone
FramesIdle ==
    /\ raw = <<>> /\ df = <<>> /\ pc = "idle"
    /\ home_team = NaN /\ away_team = NaN
    /\ home_df = <<>> /\ away_df = <<>>
    /\ shotmap_all = NotRun /\ shotmap_5v5 = NotRun

InitLambdas == FramesIdle /\ LambdasIdle /\ TriggerIdle

InitTrigger ==
    /\ FramesIdle
    /\ LambdasIdle
    /\ livefeed \in {f \in Feeds : f.abstractGameState = "Preview"
                                    /\ ~f.inIntermission /\ f.home = 0 /\ f.away = 0}
    /\ trigger_pc = "running"
    /\ triggered = <<>>
    /\ last_iteration = "none"

SpecLambdas == InitLambdas /\ [][NextLambdas]_vars
SpecTrigger == InitTrigger /\ [][NextTrigger]_vars
\* the loop keeps iterating: every sleep returns
SpecTriggerFair == SpecTrigger /\ WF_vars(PollOnce)
SpecGeom == InitGeom /\ [][Enrich]_vars

\* ------------------------------------------------------------------------
\* Properties
\* ------------------------------------------------------------------------
Rows == 1..Len(df)

\* C1: after the generator pipeline every event's seconds_elapsed is its raw
\* in-period seconds_elapsed plus 1200*(period-1): the offset is applied once.
C1_OffsetAppliedOnce ==
    pc = "enriched" =>
        \A i \in Rows :
            df[i].seconds_elapsed
                = raw[i].seconds_elapsed + 1200 * (raw[i].period - 1)

\* C2: fixed_blocked_shots flips ev_zone for BLOCK events only: every event
\* that is not a BLOCK keeps its raw ev_zone.
C2_NonBlockZoneKept ==
    pc = "enriched" =>
        \A i \in Rows : raw[i].event # "BLOCK" => df[i].ev_zone = raw[i].ev_zone

\* C3: fixed_blocked_shots swaps participants 1 and 2 (id and name) of every
\* BLOCK event, keeps them on every other event, and sets shot_quality_blocked
\* to -1 exactly on BLOCK events and to 0 on all others.
C3_BlockParticipantsSwapped ==
    pc = "enriched" =>
        \A i \in Rows :
            IF raw[i].event = "BLOCK"
            THEN /\ df[i].p1_id = raw[i].p2_id /\ df[i].p1_name = raw[i].p2_name
                 /\ df[i].p2_id = raw[i].p1_id /\ df[i].p2_name = raw[i].p1_name
                 /\ df[i].shot_quality_blocked = -1
            ELSE /\ df[i].p1_id = raw[i].p1_id /\ df[i].p1_name = raw[i].p1_name
                 /\ df[i].p2_id = raw[i].p2_id /\ df[i].p2_name = raw[i].p2_name
                 /\ df[i].shot_quality_blocked = 0

C3_Witness ==
    /\ pc = "enriched"
    /\ \E i, j \in Rows :
          /\ raw[i].event = "BLOCK" /\ raw[i].p1_id = 8471 /\ raw[i].p1_name = "A"
          /\ df[i].p1_id = 8472 /\ df[i].p1_name = "B"
          /\ df[i].p2_id = 8471 /\ df[i].shot_quality_blocked = -1
          /\ raw[j].event = "SHOT" /\ df[j].p1_id = raw[j].p1_id
          /\ df[j].shot_quality_blocked = 0

\* the game's home / away team: the corrected non-missing name of the raw frame
GameTeam(c) ==
    IF \E j \in 1..Len(raw) : raw[j][c] # NaN
    THEN team_corrections(raw[CHOOSE j \in 1..Len(raw) : raw[j][c] # NaN][c])
    ELSE NaN

\* C4: after clean_df, when some event carries a home_team (away_team), every
\* event's home_team (away_team) is that name, whichever rows missed it.
C4_TeamNamesFilled ==
    pc \in {"cleaned", "enriched"} =>
        \A i \in Rows :
            /\ GameTeam("home_team") # NaN => df[i].home_team = GameTeam("home_team")
            /\ GameTeam("away_team") # NaN => df[i].away_team = GameTeam("away_team")

\* C5: after clean_df, home_score[i] (away_score[i]) is the number of GOAL
\* events at positions <= i by the home (away) team; both counters never
\* decrease and rise by at most 1 per event.
C5_RunningScores ==
    pc \in {"cleaned", "enriched"} =>
        /\ \A i \in Rows :
              /\ df[i].home_score = Cardinality({j \in 1..i :
                    df[j].event = "GOAL" /\ df[j].ev_team = GameTeam("home_team")})
              /\ df[i].away_score = Cardinality({j \in 1..i :
                    df[j].event = "GOAL" /\ df[j].ev_team = GameTeam("away_team")})
        /\ \A i \in Rows \ {1} :
              /\ df[i].home_score - df[i - 1].home_score \in {0, 1}
              /\ df[i].away_score - df[i - 1].away_score \in {0, 1}

\* the decision table of the danger classifier
StrictlyInsideMdTriangle(x, y) == x > 70 /\ y > 8 /\ 3 * x + 4 * y < 302

DangerTable(xc, yc, zone, is_corsi) ==
    LET x == Abs(xc)
        y == Abs(yc)
    IN  IF ~is_corsi THEN Null
        ELSE IF zone # "Off" THEN <<0>>
        ELSE IF 69 <= x /\ x <= 89 /\ y <= 9 THEN <<3>>
        ELSE IF \/ (44 <= x /\ x <= 54 /\ y <= 9)
                \/ (54 <= x /\ x <= 69 /\ y <= 22)
                \/ StrictlyInsideMdTriangle(x, y) THEN <<2>>
        ELSE <<1>>

\* C6: shot_quality_area follows the decision table for every (x, y) of the
\* rink, every zone and both values of is_corsi; in particular (75,5,Off) = 3,
\* (48,5,Off) = 2, (30,30,Off) = 1, (75,5,Def) = 0, and null when not corsi.
C6_DangerAreaTable ==
    pc = "enriched" =>
        \A i \in Rows :
            LET r == df[i]
                at(x, y, zone) == r.xc = x /\ r.yc = y /\ r.ev_zone = zone
            IN  /\ r.shot_quality_area = DangerTable(r.xc, r.yc, r.ev_zone, r.is_corsi = 1)
                /\ r.is_corsi = 0 => r.shot_quality_area = Null
                /\ r.is_corsi = 1 /\ at(75, 5, "Off") => r.shot_quality_area = <<3>>
                /\ r.is_corsi = 1 /\ at(48, 5, "Off") => r.shot_quality_area = <<2>>
                /\ r.is_corsi = 1 /\ at(30, 30, "Off") => r.shot_quality_area = <<1>>
                /\ r.is_corsi = 1 /\ at(75, 5, "Def") => r.shot_quality_area = <<0>>

C6_Witness ==
    /\ pc = "enriched"
    /\ df[1].xc = -75 /\ df[1].yc = 5 /\ df[1].ev_zone = "Off" /\ df[1].is_corsi = 1
    /\ df[1].shot_quality_area = <<3>>

\* C7: on the medium-danger triangle point_in_triangle is True exactly for the
\* points strictly inside it: a point with an orientation value of exactly
\* zero (an edge, its extension, a vertex) is outside.
C7_TriangleStrictInterior ==
    pc = "enriched" =>
        \A i \in Rows :
            \A p \in {<<df[i].xc, df[i].yc>>, <<Abs(df[i].xc), Abs(df[i].yc)>>} :
                /\ point_in_triangle(p, md_triangle) = StrictlyInsideMdTriangle(p[1], p[2])
                /\ (\/ side_1(p, md_triangle) = 0
                    \/ side_2(p, md_triangle) = 0
                    \/ side_3(p, md_triangle) = 0) => ~point_in_triangle(p, md_triangle)

\* the edge point (70,15) of an offensive-zone corsi event scores low danger
C7_Witness ==
    /\ pc = "enriched"
    /\ df[1].xc = 70 /\ df[1].yc = -15 /\ df[1].ev_zone = "Off" /\ df[1].is_corsi = 1
    /\ side_3(<<70, 15>>, md_triangle) = 0
    /\ df[1].shot_quality_area = <<1>>

\* C8: for every event but the first, is_rebound = 1 iff time_diff < 4, the
\* event and the previous event are corsi events and both have the same
\* ev_team; 3 seconds apart gives 1, 5 seconds apart gives 0.
C8_ReboundRule ==
    pc = "enriched" =>
        \A i \in Rows \ {1} :
            LET same_team_corsi == /\ df[i].is_corsi = 1 /\ df[i - 1].is_corsi = 1
                                   /\ df[i].ev_team = df[i - 1].ev_team
            IN  /\ df[i].is_rebound = 1
                      <=> (df[i].time_diff[1] < 4 /\ same_team_corsi)
                /\ df[i].is_rebound \in {0, 1}
                /\ same_team_corsi /\ df[i].time_diff = <<3>> => df[i].is_rebound = 1
                /\ same_team_corsi /\ df[i].time_diff = <<5>> => df[i].is_rebound = 0

C8_Witness ==
    /\ pc = "enriched"
    /\ Len(df) = 2
    /\ df[1].event = "SHOT" /\ df[2].event = "SHOT" /\ df[1].ev_team = df[2].ev_team
    /\ df[2].time_diff = <<3>>
    /\ df[2].is_rebound = 1

\* C9: for every event but the first, is_rush = 1 iff time_diff < 5, the event
\* is a SHOT, MISS, BLOCK or GOAL and the previous xc and the current xc have
\* strictly opposite signs or the previous |xc| <= 26; previous x = -40,
\* current x = 40, time_diff = 2, SHOT gives 1.
C9_RushRule ==
    pc = "enriched" =>
        \A i \in Rows \ {1} :
            LET px == df[i - 1].xc
                cx == df[i].xc
                opposite == (px < 0 /\ cx > 0) \/ (px > 0 /\ cx < 0)
            IN  /\ df[i].is_rush = 1
                      <=> /\ df[i].time_diff[1] < 5
                          /\ df[i].event \in {"SHOT", "MISS", "BLOCK", "GOAL"}
                          /\ (opposite \/ (-26 <= px /\ px <= 26))
                /\ df[i].is_rush \in {0, 1}
                /\ (px = -40 /\ cx = 40 /\ df[i].time_diff = <<2>> /\ df[i].event = "SHOT")
                      => df[i].is_rush = 1

C9_Witness ==
    /\ pc = "enriched"
    /\ Len(df) = 2
    /\ df[1].xc = -40 /\ df[2].xc = 40 /\ df[2].time_diff = <<2>>
    /\ df[2].event = "SHOT"
    /\ df[2].is_rush = 1

\* C10: was_tied = 1 exactly for the GOAL events whose immediately preceding
\* event has score_diff = 0, that is, whose preceding running scores are
\* equal; it is 0 for every event that is not a GOAL.
C10_WasTiedRule ==
    pc = "enriched" =>
        \A i \in Rows :
            /\ df[i].was_tied = 1
                  <=> (df[i].event = "GOAL" /\ i > 1 /\ df[i - 1].score_diff = 0)
            /\ df[i].was_tied = 1
                  <=> (df[i].event = "GOAL" /\ i > 1
                       /\ df[i - 1].home_score = df[i - 1].away_score)
            /\ df[i].was_tied \in {0, 1}
            /\ df[i].event # "GOAL" => df[i].was_tied = 0

C10_Witness ==
    /\ pc = "enriched"
    /\ Len(df) = 3
    /\ df[1].event = "FAC" /\ df[2].event = "GOAL" /\ df[3].event = "GOAL"
    /\ df[1].score_diff = 0 /\ df[2].was_tied = 1
    /\ df[2].score_diff = 1 /\ df[3].was_tied = 0

\* ------------------------------------------------------------------------
\* C11: shot_danger is shot_quality_area (0 when missing) + is_rush +
\* is_rebound + shot_quality_blocked and is_scoring_chance is 1 exactly when
\* shot_danger >= 2; so shot_danger lies in -1..5, is negative only on a
\* BLOCK, and an event that is not a corsi event has shot_danger 0 and
\* is_scoring_chance 0.
\* ------------------------------------------------------------------------
C11_ShotDangerSum ==
    pc = "enriched" =>
        \A i \in Rows :
            LET r == df[i]
                area == IF r.shot_quality_area = Null THEN 0 ELSE r.shot_quality_area[1]
            IN  /\ r.shot_danger = area + r.is_rush + r.is_rebound + r.shot_quality_blocked
                /\ r.is_scoring_chance \in {0, 1}
                /\ (r.is_scoring_chance = 1) <=> (r.shot_danger >= 2)
                /\ r.shot_danger \in (-1)..5
                /\ (r.shot_danger < 0) => (r.event = "BLOCK")
                /\ (r.is_corsi # 1) => (r.shot_danger = 0 /\ r.is_scoring_chance = 0)

\* a blocked shot scored -1 followed by a rush rebound from the slot scored 5
C11_Witness ==
    /\ pc = "enriched"
    /\ Len(df) = 2
    /\ df[1].event = "BLOCK" /\ df[1].shot_danger = -1 /\ df[1].is_scoring_chance = 0
    /\ df[2].event = "SHOT" /\ df[2].shot_danger = 5 /\ df[2].is_scoring_chance = 1

\* ------------------------------------------------------------------------
\* C12: score_diff is home_score - away_score clamped to -3..3, and is 0
\* exactly when the running scores are equal.
\* ------------------------------------------------------------------------
C12_ScoreDiffClamped ==
    pc = "enriched" =>
        \A i \in Rows :
            LET d == df[i].home_score - df[i].away_score
            IN  /\ df[i].score_diff = (IF d > 3 THEN 3 ELSE IF d < -3 THEN -3 ELSE d)
                /\ df[i].score_diff \in (-3)..3
                /\ (df[i].score_diff = 0) <=> (df[i].home_score = df[i].away_score)

\* the away team leads by four and the difference is held at -3
C12_Witness ==
    /\ pc = "enriched"
    /\ \E i \in Rows :
          /\ df[i].away_score - df[i].home_score = 4
          /\ df[i].score_diff = -3

\* ------------------------------------------------------------------------
\* C13: is_corsi is 1 exactly on SHOT, BLOCK, MISS, GOAL; is_fenwick on SHOT,
\* MISS, GOAL; is_shot on SHOT, GOAL; is_goal on GOAL.  So is_goal implies
\* is_shot implies is_fenwick implies is_corsi, and an event is corsi but not
\* fenwick exactly when it is a BLOCK.
\* ------------------------------------------------------------------------
C13_ShotMetricFlags ==
    pc = "enriched" =>
        \A i \in Rows :
            LET r == df[i]
            IN  /\ {r.is_corsi, r.is_fenwick, r.is_shot, r.is_goal} \subseteq {0, 1}
                /\ (r.is_corsi = 1) <=> (r.event \in {"SHOT", "BLOCK", "MISS", "GOAL"})
                /\ (r.is_fenwick = 1) <=> (r.event \in {"SHOT", "MISS", "GOAL"})
                /\ (r.is_shot = 1) <=> (r.event \in {"SHOT", "GOAL"})
                /\ (r.is_goal = 1) <=> (r.event = "GOAL")
                /\ (r.is_goal = 1) => (r.is_shot = 1)
                /\ (r.is_shot = 1) => (r.is_fenwick = 1)
                /\ (r.is_fenwick = 1) => (r.is_corsi = 1)
                /\ (r.is_corsi = 1 /\ r.is_fenwick = 0) <=> (r.event = "BLOCK")

C13_Witness ==
    /\ pc = "enriched"
    /\ \E i \in Rows :
          df[i].event = "BLOCK" /\ df[i].is_corsi = 1 /\ df[i].is_fenwick = 0

\* ------------------------------------------------------------------------
\* C14: is_even_strength is 1 exactly on 5x5, 4x4, 3x3; is_home_pp on 6x4,
\* 5x4, 5x3, 4x3; is_home_pk on 4x6, 4x5, 3x5, 3x4; is_away_pp equals
\* is_home_pk and is_away_pk equals is_home_pp; at most one of
\* is_even_strength, is_home_pp, is_home_pk is 1; a code in none of the sets,
\* such as 6x5, sets all five flags to 0.
\* ------------------------------------------------------------------------
C14_StrengthFlags ==
    pc = "enriched" =>
        \A i \in Rows :
            LET r == df[i]
                listed == {"5x5", "4x4", "3x3", "6x4", "5x4", "5x3", "4x3",
                           "4x6", "4x5", "3x5", "3x4"}
            IN  /\ {r.is_even_strength, r.is_home_pp, r.is_home_pk} \subseteq {0, 1}
                /\ (r.is_even_strength = 1) <=> (r.strength \in {"5x5", "4x4", "3x3"})
                /\ (r.is_home_pp = 1) <=> (r.strength \in {"6x4", "5x4", "5x3", "4x3"})
                /\ (r.is_home_pk = 1) <=> (r.strength \in {"4x6", "4x5", "3x5", "3x4"})
                /\ r.is_away_pp = r.is_home_pk
                /\ r.is_away_pk = r.is_home_pp
                /\ r.is_even_strength + r.is_home_pp + r.is_home_pk <= 1
                /\ (r.strength \notin listed) =>
                       /\ r.is_even_strength = 0
                       /\ r.is_home_pp = 0 /\ r.is_home_pk = 0
                       /\ r.is_away_pp = 0 /\ r.is_away_pk = 0

C14_Witness ==
    /\ pc = "enriched"
    /\ \E i \in Rows :
          /\ df[i].strength = "6x5"
          /\ df[i].is_even_strength = 0
          /\ df[i].is_home_pp = 0 /\ df[i].is_home_pk = 0
          /\ df[i].is_away_pp = 0 /\ df[i].is_away_pk = 0

\* ------------------------------------------------------------------------
\* C15: run_all_stats drops and reorders no event: the frame it returns has
\* as many events as the frame it was given, in the same order, with event,
\* ev_team, period, xc and yc unchanged.
\* ------------------------------------------------------------------------
C15_RunAllStatsKeepsEvents ==
    [][RunAllStats =>
          /\ Len(df') = Len(df)
          /\ \A i \in 1..Len(df) :
                /\ df'[i].event = df[i].event
                /\ df'[i].ev_team = df[i].ev_team
                /\ df'[i].period = df[i].period
                /\ df'[i].xc = df[i].xc
                /\ df'[i].yc = df[i].yc]_vars

C15_Witness ==
    /\ pc = "enriched"
    /\ Len(raw) = 2 /\ Len(df) = 2
    /\ df[1].event = "BLOCK" /\ df[1].xc = 75
    /\ df[2].event = "FAC" /\ df[2].xc = 20

\* ------------------------------------------------------------------------
\* C16: df_remove_zerozero removes exactly the events at (0, 0): an event is
\* dropped from the plotted frame if and only if xc = 0 and yc = 0, so an
\* event at (50, 0) or (0, 12) is kept.
\* ------------------------------------------------------------------------
Plotted(r, plot) == \E k \in 1..Len(plot) : plot[k] = r

C16_ZeroZeroOnly ==
    shotmap_all.status = "ok" =>
        /\ \A i \in 1..Len(home_df) :
              home_df[i].event # "BLOCK" =>
                  (~Plotted(home_df[i], shotmap_all.plot_home)
                      <=> (home_df[i].xc = 0 /\ home_df[i].yc = 0))
        /\ \A i \in 1..Len(away_df) :
              away_df[i].event # "BLOCK" =>
                  (~Plotted(away_df[i], shotmap_all.plot_away)
                      <=> (away_df[i].xc = 0 /\ away_df[i].yc = 0))

\* ------------------------------------------------------------------------
\* C17: fix_df_periods negates xc and yc of every event of an even period
\* and leaves the events of odd periods, and every other field, unchanged.
\* ------------------------------------------------------------------------
C17_EvenPeriodsNegated ==
    [][FixDfPeriods =>
          /\ Len(df') = Len(df)
          /\ \A i \in 1..Len(df) :
                IF df[i].period % 2 = 0
                THEN df'[i] = [df[i] EXCEPT !.xc = 0 - df[i].xc, !.yc = 0 - df[i].yc]
                ELSE df'[i] = df[i]]_vars

\* an event of period 2 entered at (-30, 12) and one of period 1 at (30, 12)
C17_Witness ==
    /\ pc = "periods_fixed"
    /\ Len(raw) = 2 /\ Len(df) = 2
    /\ raw[1].period = 2 /\ raw[1].xc = -30 /\ raw[1].yc = 12
    /\ df[1].period = 2 /\ df[1].xc = 30 /\ df[1].yc = -12
    /\ raw[2].period = 1 /\ raw[2].xc = 30
    /\ df[2].period = 1 /\ df[2].xc = 30 /\ df[2].yc = 12

\* ------------------------------------------------------------------------
\* C18 (as stated): an event whose ev_team equals neither the recorded home
\* team nor the recorded away team appears in neither output of split_df.
\* ------------------------------------------------------------------------
EventsOf(frame, t) == Cardinality({i \in 1..Len(frame) : frame[i].ev_team = t})

UnknownTeams == {df[i].ev_team : i \in Rows} \ {home_team, away_team}

C18_UnknownTeamInNeither ==
    pc = "split" =>
        \A t \in UnknownTeams : EventsOf(home_df, t) = 0 /\ EventsOf(away_df, t) = 0

\* ------------------------------------------------------------------------
\* C18 (amended): an event whose ev_team equals neither the recorded home
\* team nor the recorded away team appears in the away output of split_df,
\* which takes every event whose ev_team differs from the home team, and
\* not in the home output.
\* ------------------------------------------------------------------------
C18_UnknownTeamInAway ==
    pc = "split" =>
        \A t \in UnknownTeams :
            EventsOf(home_df, t) = 0 /\ EventsOf(away_df, t) = EventsOf(df, t)

C18_Witness ==
    /\ pc = "split"
    /\ "UNK" \in UnknownTeams
    /\ \E k \in 1..Len(away_df) : away_df[k].ev_team = "UNK"

\* ------------------------------------------------------------------------
\* C19: after split_df every home event has xc >= 0 and every away event
\* has xc <= 0; each output event is its input event unchanged or with both
\* xc and yc negated (home: negated exactly when the input xc < 0; away:
\* exactly when the input xc > 0), so a home event at x = -30 comes out at
\* x = 30 and an away event at x = 30 at x = -30; the relative order of the
\* events within each output is that of the input.
\* ------------------------------------------------------------------------
Negated(r) == [r EXCEPT !.xc = 0 - r.xc, !.yc = 0 - r.yc]

\* out holds the input events of idx in input order, the ones in flip negated
Projection(out, idx, flip) ==
    /\ Len(out) = Cardinality(idx)
    /\ \A i \in idx :
          out[Cardinality({j \in idx : j <= i})] =
              IF i \in flip THEN Negated(df[i]) ELSE df[i]

C19_SplitOrientation ==
    pc = "split" =>
        LET home_idx == {i \in Rows : df[i].ev_team = home_team}
            away_idx == Rows \ home_idx
        IN  /\ \A k \in 1..Len(home_df) : home_df[k].xc >= 0
            /\ \A k \in 1..Len(away_df) : away_df[k].xc <= 0
            /\ Projection(home_df, home_idx, {i \in home_idx : df[i].xc < 0})
            /\ Projection(away_df, away_idx, {i \in away_idx : df[i].xc > 0})

\* a home event entered at x = -30 and an away event entered at x = 30
C19_Witness ==
    /\ pc = "split"
    /\ Len(df) = 2
    /\ df[1].ev_team = home_team /\ df[1].xc = -30 /\ df[1].yc = 12
    /\ df[2].ev_team = away_team /\ df[2].xc = 30 /\ df[2].yc = 12
    /\ Len(home_df) = 1 /\ home_df[1].xc = 30 /\ home_df[1].yc = -12
    /\ Len(away_df) = 1 /\ away_df[1].xc = -30 /\ away_df[1].yc = -12

\* ------------------------------------------------------------------------
\* C20: with no corsi event of the home team (the home frame is empty, or
\* both frames are), generate_shotmap neither divides by zero nor raises,
\* and returns the corsi-for percentage, the average shot distance and the
\* on-target percentage as a missing value.
\* ------------------------------------------------------------------------
Missing(ratio) == ratio[2] = 0

C20_EmptyHomeNoRaise ==
    (pc \in {"mapped", "failed"} /\ Len(df) > 0 /\ Len(home_df) = 0
        /\ shotmap_all # NotRun) =>
        /\ shotmap_all.status = "ok"
        /\ Missing(shotmap_all.corsi_for_percent)
        /\ Missing(shotmap_all.avg_shot_distance)
        /\ Missing(shotmap_all.on_target)

\* ------------------------------------------------------------------------
\* C21: if home_team or away_team is missing on every event of the game,
\* clean_df fails with an error surfaced to the caller; it never completes
\* normally with the team names unresolved.
\* ------------------------------------------------------------------------
MissingEverywhere(c) == \A i \in 1..Len(raw) : raw[i][c] = NaN

C21_MissingTeamFails ==
    (MissingEverywhere("home_team") \/ MissingEverywhere("away_team")) =>
        pc \in {"start", "loaded", "fixed", "failed"}

\* ------------------------------------------------------------------------
\* C22: if the raw events are ordered by period and, within a period, by
\* seconds_elapsed in 0..1200, then after the period-offset correction
\* seconds_elapsed never decreases along the sequence, every defined
\* time_diff is >= 0, and the sort by seconds_elapsed leaves the order of
\* events with distinct times unchanged.
\* ------------------------------------------------------------------------
InGameOrder(frame) ==
    /\ \A i \in 1..Len(frame) : frame[i].seconds_elapsed \in 0..1200
    /\ \A i \in 1..(Len(frame) - 1) :
          \/ frame[i].period < frame[i + 1].period
          \/ /\ frame[i].period = frame[i + 1].period
             /\ frame[i].seconds_elapsed <= frame[i + 1].seconds_elapsed

NonDecreasing(frame) ==
    \A i \in 1..(Len(frame) - 1) :
        frame[i].seconds_elapsed <= frame[i + 1].seconds_elapsed

\* a row has moved only if another row shares its time
DistinctTimesKept(old, new) ==
    /\ Len(new) = Len(old)
    /\ \A i \in 1..Len(old) :
          \/ new[i] = old[i]
          \/ /\ new[i].seconds_elapsed = old[i].seconds_elapsed
             /\ \E j \in 1..Len(old) :
                   j # i /\ old[j].seconds_elapsed = old[i].seconds_elapsed

C22_TimeNonDecreasing ==
    [][InGameOrder(raw) =>
          /\ FixSecondsElapsed => NonDecreasing(df')
          /\ RunAllStats =>
                /\ NonDecreasing(df')
                /\ \A i \in 1..Len(df') :
                      df'[i].time_diff # Null => df'[i].time_diff[1] >= 0
          /\ SortValues => DistinctTimesKept(df, df')]_vars

\* the last second of period 1 followed by the first second of period 2
C22_Witness ==
    /\ pc = "sorted"
    /\ InGameOrder(raw)
    /\ Len(raw) = 2 /\ Len(df) = 2
    /\ raw[1].period = 1 /\ raw[1].seconds_elapsed = 1200
    /\ raw[2].period = 2 /\ raw[2].seconds_elapsed = 0
    /\ df[1].period = 1 /\ df[2].period = 2
    /\ df[1].seconds_elapsed <= df[2].seconds_elapsed
    /\ df[2].time_diff # Null /\ df[2].time_diff[1] >= 0

\* ------------------------------------------------------------------------
\* C23: no lookahead: every derived field that clean_df and run_all_stats
\* compute for an event of a prefix of the sequence is the same whether the
\* pipeline is run on the prefix alone or on the whole sequence.
\* ------------------------------------------------------------------------
DerivedFields ==
    {"is_corsi", "is_fenwick", "is_shot", "is_goal", "is_rebound", "is_rush",
     "is_home", "was_tied", "score_diff", "shot_danger", "is_scoring_chance",
     "is_even_strength", "is_home_pp", "is_home_pk", "is_away_pp", "is_away_pk"}

C23_NoLookahead ==
    pc = "enriched" =>
        \A w \in BOOLEAN :
            df = pipeline(raw, w) =>
                \A k \in 1..Len(raw) :
                    \A alone \in {pipeline(SubSeq(raw, 1, k), w)} :
                        \A i \in 1..k : \A f \in DerivedFields :
                            alone[i][f] = df[i][f]

\* a goal on the third event that the first two events do not see
C23_Witness ==
    /\ pc = "enriched"
    /\ Len(raw) = 3 /\ Len(df) = 3
    /\ df[1].event = "FAC" /\ df[2].event = "FAC" /\ df[3].event = "GOAL"
    /\ df[3].score_diff = 1
    /\ df[1].score_diff = 0 /\ df[2].score_diff = 0

\* ------------------------------------------------------------------------
\* C24: run_all_stats is not idempotent: applied to its own output it adds
\* the period offset to seconds_elapsed a second time (periods >= 2), swaps
\* the participants of BLOCK events a second time and flips the zones a
\* second time, so the result differs from the once-enriched frame whenever
\* the game has an event of period >= 2 or a BLOCK event.
\* ------------------------------------------------------------------------
C24_NotIdempotent ==
    pc = "enriched" =>
        \A w \in BOOLEAN : \A twice \in {run_all_stats(df, w)} :
            /\ Len(twice) = Len(df)
            /\ \A i \in Rows :
                  /\ twice[i].seconds_elapsed =
                         df[i].seconds_elapsed + 1200 * (df[i].period - 1)
                  /\ df[i].event = "BLOCK" =>
                         /\ twice[i].p1_id = df[i].p2_id
                         /\ twice[i].p2_id = df[i].p1_id
                         /\ twice[i].p1_name = df[i].p2_name
                         /\ twice[i].p2_name = df[i].p1_name
                  /\ (w /\ df[i].ev_zone = "Off") => twice[i].ev_zone = "Def"
                  /\ (w /\ df[i].ev_zone = "Def") => twice[i].ev_zone = "Off"
            /\ (\E i \in Rows : df[i].period >= 2 \/ df[i].event = "BLOCK")
                  => twice # df

\* a blocked shot of period 1 and a shot of period 2, enriched a second time
C24_Witness ==
    /\ pc = "enriched"
    /\ Len(df) = 2
    /\ df[1].event = "BLOCK" /\ df[1].period = 1
    /\ df[2].event = "SHOT" /\ df[2].period = 2
    /\ \E twice \in {run_all_stats(df, FALSE)} :
          /\ twice[1].p1_id = df[1].p2_id
          /\ twice[2].seconds_elapsed = df[2].seconds_elapsed + 1200
          /\ twice # df

\* ------------------------------------------------------------------------
\* C25: the first event of the sequence has no previous event: its
\* time_diff is missing and its is_rebound, is_rush and was_tied are all 0,
\* whatever its type, coordinates and team.
\* ------------------------------------------------------------------------
C25_FirstEventUnflagged ==
    (pc = "enriched" /\ Len(df) >= 1) =>
        /\ df[1].time_diff = Null
        /\ df[1].is_rebound = 0
        /\ df[1].is_rush = 0
        /\ df[1].was_tied = 0

\* a first goal with no flag, then a goal that is a rush rebound
C25_Witness ==
    /\ pc = "enriched"
    /\ Len(df) = 2
    /\ df[1].event = "GOAL" /\ df[1].xc = 20
    /\ df[1].time_diff = Null
    /\ df[1].is_rebound = 0 /\ df[1].is_rush = 0 /\ df[1].was_tied = 0
    /\ df[2].event = "GOAL"
    /\ df[2].is_rebound = 1 /\ df[2].is_rush = 1

\* ------------------------------------------------------------------------
\* C30: for every event with xc # 0 the coordinates after fix_df_periods
\* and split_df do not depend on the parity of its period: a home event
\* ends at (|xc|, yc * sign(xc)) and an away event at (-|xc|, -yc * sign(xc));
\* only an event with xc = 0 keeps a yc whose sign depends on the period.
\* ------------------------------------------------------------------------
Sign(n) == IF n < 0 THEN -1 ELSE IF n > 0 THEN 1 ELSE 0

\* where an event entered at (xc, yc) in the given period must end
Oriented(r, is_home_event) ==
    IF r.xc = 0
    THEN <<0, IF r.period % 2 = 0 THEN 0 - r.yc ELSE r.yc>>
    ELSE IF is_home_event
         THEN <<Abs(r.xc), r.yc * Sign(r.xc)>>
         ELSE <<0 - Abs(r.xc), 0 - (r.yc * Sign(r.xc))>>

\* the events of the frame of one team and period that lie at one point
At(frame, team, period, point) ==
    Cardinality({k \in 1..Len(frame) :
        /\ frame[k].ev_team = team /\ frame[k].period = period
        /\ <<frame[k].xc, frame[k].yc>> = point})

\* the corsi events entered for one team and period that must end at one point
Expected(team, period, point) ==
    Cardinality({j \in 1..Len(raw) :
        /\ raw[j].event \in {"SHOT", "BLOCK", "MISS", "GOAL"}
        /\ raw[j].ev_team = team /\ raw[j].period = period
        /\ Oriented(raw[j], team = home_team) = point})

C30_ParityIndependent ==
    pc = "split" =>
        \A team \in {raw[j].ev_team : j \in 1..Len(raw)} :
            \A period \in {raw[j].period : j \in 1..Len(raw)} :
                \A x \in {-30, 0, 30} : \A y \in {-12, 0, 12} :
                    At(IF team = home_team THEN home_df ELSE away_df,
                       team, period, <<x, y>>) = Expected(team, period, <<x, y>>)

\* the same home event at (-30, 12) in period 1 and in period 2
C30_Witness ==
    /\ pc = "split"
    /\ Len(raw) = 2
    /\ \A j \in 1..2 : raw[j].ev_team = home_team /\ raw[j].xc = -30 /\ raw[j].yc = 12
    /\ raw[1].period = 1 /\ raw[2].period = 2
    /\ Len(home_df) = 2
    /\ \A k \in 1..2 : home_df[k].xc = 30 /\ home_df[k].yc = -12

\* ------------------------------------------------------------------------
\* C26: at most one shotmap is produced per game and period: under any
\* interleaving of scraper runs for SNS events of the same game and period
\* with the asynchronously invoked generator, the generator is invoked at
\* most once for that period and every later event for it is answered 409.
\* ------------------------------------------------------------------------
C26_OneShotmapPerPeriod ==
    \A i, j \in 1..Len(answers) :
        (/\ i < j
         /\ answers[i].kind = "sns" /\ answers[j].kind = "sns"
         /\ answers[i].valid_id /\ answers[j].valid_id
         /\ answers[i].period = answers[j].period
         /\ answers[i].status = "invoked")
            => answers[j].status = "409"

\* ------------------------------------------------------------------------
\* C27: once the live feed reports abstractGameState = "Final", the polling
\* loop of lambda_trigger invokes the shotmap Lambda one final time and
\* exits: the process eventually terminates.
\* ------------------------------------------------------------------------
C27_FinalThenExit ==
    (trigger_pc = "running" /\ livefeed.abstractGameState = "Final")
        ~> (trigger_pc = "exited")

\* ------------------------------------------------------------------------
\* C28: invoked directly (no SNS Records) with a valid game_id and the
\* scores, as lambda_trigger.trigger_lambda does, the scraper handler
\* performs the last-period check and then answers 409 or invokes the
\* generator; it does not end in an error before the period check.
\* ------------------------------------------------------------------------
C28_DirectInvocationChecked ==
    \A i \in 1..Len(answers) :
        (answers[i].kind = "direct" /\ answers[i].valid_id)
            => answers[i].status \in {"409", "invoked"}

\* ------------------------------------------------------------------------
\* C29: for a given game the stored lastPeriodProcessed never decreases,
\* under any interleaving of generator runs.
\* ------------------------------------------------------------------------
C29_LastPeriodNeverDecreases ==
    [][table # Null => (table' # Null /\ table'[1] >= table[1])]_vars

====
